---- MODULE Spec2Model ----
(***************************************************************************)
(* Model of src/main.rs of ultimate-guitar-player: the terminal            *)
(* setup/teardown of main, the draw / read / handle loop of run_app, the   *)
(* fetch - save - extract sequence run on Enter, and parse_html.           *)
(*                                                                         *)
(* Text is a sequence of text units (a unit is one character, or one run   *)
(* of ASCII characters such as a tag).  Bytes are sequences of byte units: *)
(* an ASCII unit is its own encoding, the other characters have the UTF-8  *)
(* encodings tabulated in Utf8.  Option<T> is a sequence of length 0       *)
(* (None) or 1 (Some).                                                     *)
(***************************************************************************)
EXTENDS Integers, Sequences, FiniteSets, TLC

\* ---------------------------------------------------------------- bounds
\* most characters the model types into the buffer one key at a time
MaxLen == 2
\* longest window of character/Backspace presses that is remembered
MaxKeys == 3
\* most bytes a failing write_all is modelled to have written
MaxPartial == 1
\* longest document given to parse_html on its own
MaxDoc == 5

\* ------------------------------------------------------------- text
None == <<>>
Some(x) == <<x>>

\* a string literal of the source, as text
Str(s) == <<s>>

Digit(d) ==
  CASE d = 0 -> "0" [] d = 1 -> "1" [] d = 2 -> "2" [] d = 3 -> "3"
    [] d = 4 -> "4" [] d = 5 -> "5" [] d = 6 -> "6" [] d = 7 -> "7"
    [] d = 8 -> "8" [] d = 9 -> "9"

RECURSIVE Decimal(_)
\* "{}" applied to an unsigned integer: its decimal digits
Decimal(n) == IF n < 10 THEN <<Digit(n)>> ELSE Append(Decimal(n \div 10), Digit(n % 10))

\* t occurs in s as a contiguous run
Contains(s, t) ==
  \E i \in 1..(Len(s) - Len(t) + 1) : SubSeq(s, i, i + Len(t) - 1) = t

\* String::push
Push(s, c) == Append(s, c)

\* a pop that removes the first character instead of the last
PopFirst(s) == IF s = <<>> THEN s ELSE Tail(s)

\* String::pop: removes the last character, nothing to remove from ""
Pop(s) == IF s = <<>> THEN s ELSE SubSeq(s, 1, Len(s) - 1)

\* String::push_str
\* a push_str that puts the data in front
PushStrFront(s, data) == data \o s

PushStr(s, data) == s \o data

\* ------------------------------------------------------------- encoding
ReplacementChar == "U+FFFD"

\* str::as_bytes: the UTF-8 bytes of one character
Utf8(c) ==
  CASE c = "U+00E9" -> <<"C3", "A9">>
    [] c = ReplacementChar -> <<"EF", "BF", "BD">>
    [] OTHER -> <<c>>

RECURSIVE AsBytes(_)
\* str::as_bytes
AsBytes(text) == IF text = <<>> THEN <<>> ELSE Utf8(Head(text)) \o AsBytes(Tail(text))

\* bytes that are not ASCII
HighBytes == {"C3", "A9", "EF", "BF", "BD", "FF"}

RECURSIVE DecodeLossy(_)
\* the decoding of Response::text: UTF-8 with every malformed sequence
\* replaced by U+FFFD
DecodeLossy(bytes) ==
  IF bytes = <<>> THEN <<>>
  ELSE IF Len(bytes) >= 2 /\ SubSeq(bytes, 1, 2) = <<"C3", "A9">>
    THEN <<"U+00E9">> \o DecodeLossy(SubSeq(bytes, 3, Len(bytes)))
  ELSE IF Len(bytes) >= 3 /\ SubSeq(bytes, 1, 3) = <<"EF", "BF", "BD">>
    THEN <<ReplacementChar>> \o DecodeLossy(SubSeq(bytes, 4, Len(bytes)))
  ELSE IF Len(bytes) >= 2 /\ SubSeq(bytes, 1, 2) = <<"EF", "BF">>
    THEN <<ReplacementChar>> \o DecodeLossy(SubSeq(bytes, 3, Len(bytes)))
  ELSE IF Head(bytes) \in HighBytes
    THEN <<ReplacementChar>> \o DecodeLossy(Tail(bytes))
  ELSE <<Head(bytes)>> \o DecodeLossy(Tail(bytes))

\* ------------------------------------------------------------- documents
\* One node of a parsed document, in document order: a start tag with its
\* attributes, an end tag, or a text node.
StartNode(tag, class, name, content) ==
  [kind |-> "start", tag |-> tag, class |-> class, name |-> name,
   content |-> content, text |-> ""]
EndNode(tag) ==
  [kind |-> "end", tag |-> tag, class |-> "", name |-> "", content |-> None, text |-> ""]
TextNode(u) ==
  [kind |-> "text", tag |-> "", class |-> "", name |-> "", content |-> None, text |-> u]

\* the markup units the modelled pages are made of
Node(u) ==
  CASE u = "<title>" -> StartNode("title", "", "", None)
    [] u = "</title>" -> EndNode("title")
    [] u = "<span class=yvpjZ>" -> StartNode("span", "yvpjZ", "", None)
    [] u = "<span class=other>" -> StartNode("span", "other", "", None)
    [] u = "</span>" -> EndNode("span")
    [] u = "<b>" -> StartNode("b", "", "", None)
    [] u = "</b>" -> EndNode("b")
    [] u = "<meta name=og:site_name content=Band>" ->
         StartNode("meta", "", "og:site_name", Some(Str("Band")))
    [] u = "<meta name=og:site_name>" -> StartNode("meta", "", "og:site_name", None)
    [] u = "<meta name=viewport content=w>" ->
         StartNode("meta", "", "viewport", Some(Str("w")))
    [] OTHER -> TextNode(u)

\* Html::parse_document: always yields a document (lenient parsing)
ParseDocument(html) == [i \in 1..Len(html) |-> Node(html[i])]

\* elements that never have content or an end tag
IsVoid(n) == n.tag = "meta"

RECURSIVE EndOf(_, _, _)
\* index of the end tag closing the element whose content starts at j
\* (depth counts the elements opened since); an element left open is
\* closed at the end of the document
EndOf(doc, j, depth) ==
  IF j > Len(doc) THEN j
  ELSE IF doc[j].kind = "start" /\ ~IsVoid(doc[j]) THEN EndOf(doc, j + 1, depth + 1)
  ELSE IF doc[j].kind = "end"
    THEN IF depth = 0 THEN j ELSE EndOf(doc, j + 1, depth - 1)
  ELSE EndOf(doc, j + 1, depth)

\* serialisation of one node, text escaped as the HTML serialiser does
Serialize(n) ==
  IF n.kind = "text"
    THEN IF n.text = "&" THEN "&amp;" ELSE n.text
  ELSE IF n.kind = "end" THEN "</" \o n.tag \o ">"
  ELSE IF n.class # "" THEN "<" \o n.tag \o " class=\"" \o n.class \o "\">"
  ELSE "<" \o n.tag \o ">"

\* ElementRef::inner_html: the serialised children of the element at i
inner_html(doc, i) ==
  IF IsVoid(doc[i]) THEN <<>>
  ELSE [k \in 1..(EndOf(doc, i + 1, 0) - i - 1) |-> Serialize(doc[i + k])]

\* Selector::parse("title")
title_selector == "title"
\* Selector::parse("meta[name='og:site_name']")
artist_selector == "meta[name='og:site_name']"
\* Selector::parse("span.yvpjZ")
chord_selector == "span.yvpjZ"

\* the element n matches the selector
Matches(selector, n) ==
  CASE selector = "title" -> n.tag = "title"
    [] selector = "meta[name='og:site_name']" -> n.tag = "meta" /\ n.name = "og:site_name"
    [] selector = "span.yvpjZ" -> n.tag = "span" /\ n.class = "yvpjZ"

RECURSIVE SelectFrom(_, _, _)
\* the elements from index i on that match the selector, in document order
SelectFrom(doc, selector, i) ==
  IF i > Len(doc) THEN <<>>
  ELSE IF doc[i].kind = "start" /\ Matches(selector, doc[i])
    THEN <<i>> \o SelectFrom(doc, selector, i + 1)
  ELSE SelectFrom(doc, selector, i + 1)

\* Html::select
Select(doc, selector) == SelectFrom(doc, selector, 1)

\* Option of the first element of a selection (Iterator::next)
First(sel) == IF sel = <<>> THEN None ELSE Some(Head(sel))

\* title of parse_html
ParseTitle(doc) ==
  LET t == First(Select(doc, title_selector))
  IN IF t = None THEN None ELSE Some(inner_html(doc, t[1]))

\* artist of parse_html
ParseArtist(doc) ==
  LET a == First(Select(doc, artist_selector))
  IN IF a = None THEN None ELSE doc[a[1]].content

\* chords of parse_html
ParseChords(doc) ==
  LET sel == Select(doc, chord_selector)
  IN [k \in 1..Len(sel) |-> [name |-> inner_html(doc, sel[k])]]

parse_html(html) ==
  LET document == ParseDocument(html)
  IN [title |-> ParseTitle(document),
      artist |-> ParseArtist(document),
      chords |-> ParseChords(document)]

\* ------------------------------------------------------------- inputs
\* response bodies served to the program, as raw bytes
PageEmpty == <<>>
PageOne == <<"<title>", "T", "</title>", "<span class=yvpjZ>", "Am", "</span>">>
PageMany ==
  <<"<meta name=viewport content=w>", "<meta name=og:site_name content=Band>",
    "<span class=yvpjZ>", "C", "</span>", "<span class=other>", "x", "</span>",
    "<span class=yvpjZ>", "<b>", "G", "</b>", "</span>">>
PageLatin ==
  <<"<title>", "C3", "A9", "&", "FF", "</title>", "<meta name=og:site_name>">>
Pages == {PageEmpty, PageOne, PageMany, PageLatin}

\* characters typed one key at a time
Chars == {"q", "u"}
\* characters pressed outside input mode
NavChars == Chars \cup {"x"}
\* payloads of bracketed-paste events
PasteUrl == <<"h", "t", "t", "p", ":", "/", "/", "x">>
Pastes == {<<>>, PasteUrl}
\* key codes that are none of Enter, Char, Backspace, Esc
OtherCodes == {"Tab"}
\* events that are neither key nor paste events
OtherEvents == {"Resize"}

\* ------------------------------------------------------------- HTTP
SchemePrefix == <<"h", "t", "t", "p", ":", "/", "/">>

\* the buffer parses as an absolute http URL with a host
IsUrl(u) ==
  /\ Len(u) > Len(SchemePrefix)
  /\ SubSeq(u, 1, Len(SchemePrefix)) = SchemePrefix

FetchErr(e) == [ok |-> FALSE, err |-> e, status |-> 0, body |-> <<>>, readable |-> FALSE]
FetchOk(st, body, readable) ==
  [ok |-> TRUE, err |-> "", status |-> st, body |-> body, readable |-> readable]

\* what reqwest::blocking::get(url) can return: a buffer that is no URL never
\* reaches the network; a URL gets a transport error or a response, whose
\* body may fail to be read
Responses(u) ==
  IF ~IsUrl(u) THEN {FetchErr("builder error")}
  ELSE {FetchErr("error sending request")}
       \cup {FetchOk(200, b, TRUE) : b \in Pages}
       \cup {FetchOk(200, <<>>, FALSE)}
       \cup {FetchOk(st, <<>>, TRUE) : st \in {204, 404, 500}}

\* what File::create and write_all can do: create fails; write_all fails
\* having written some bytes; both succeed
DiskOutcomes ==
  {[create_ok |-> FALSE, write_ok |-> FALSE, written |-> 0],
   [create_ok |-> TRUE, write_ok |-> TRUE, written |-> 0]}
  \cup {[create_ok |-> TRUE, write_ok |-> FALSE, written |-> n] : n \in 0..MaxPartial}

\* a status test that takes every status below 500 for a success
is_success_below_500(st) == st < 500

\* StatusCode::is_success
is_success(st) == st >= 200 /\ st < 300

\* StatusCode::canonical_reason
canonical_reason(st) ==
  CASE st = 200 -> "OK" [] st = 204 -> "No Content" [] st = 404 -> "Not Found"
    [] st = 500 -> "Internal Server Error" [] OTHER -> "<unknown status code>"

\* "{}" applied to a StatusCode
StatusDisplay(st) == Decimal(st) \o Str(" ") \o Str(canonical_reason(st))

\* an unwrap that falls back to the empty string
UnwrapOrEmpty(o) == IF o = None THEN <<>> ELSE o[1]

\* Option::unwrap_or(&"Unknown".to_string())
UnwrapOrUnknown(o) == IF o = None THEN Str("Unknown") ELSE o[1]

\* the message composed after a successful save
SavedMessage(sng) ==
  Str("Saved to fetched.html. Parsed ") \o Decimal(Len(sng.chords))
    \o Str(" chords for '") \o UnwrapOrUnknown(sng.title)
    \o Str("' by ") \o UnwrapOrUnknown(sng.artist)

\* ------------------------------------------------------------- state
VARIABLES
  pc,          \* where main / run_app stands
  raw_mode,    \* the terminal is in raw mode
  alt_screen,  \* the terminal shows the alternate screen
  res,         \* what run_app returned: "none" while it runs, "Ok", "Err(..)"
  stdout,      \* lines printed to standard output
  stderr,      \* lines printed to standard error
  exit_code,   \* -1 while the process runs
  input_mode, url, message, song,   \* the fields of App
  file,        \* fetched.html: None, or Some(bytes)
  last_event,  \* the event the last loop iteration read
  last_io,     \* the I/O steps the handling of that event performed, in order
  last_resp,   \* the response that handling got from the fetch
  before,      \* url, message, song and file as they were when it was read
  edit_start,  \* the buffer when the current run of Char/Backspace presses began
  edit_keys,   \* that run of presses
  html,        \* the text that handling passed to parse_html, if it called it
  last_url,    \* the URL that handling passed to reqwest::blocking::get
  entered,     \* net text entered since input mode was last entered
  screen,      \* the frame the last successful terminal.draw rendered
  draws        \* successful draws since the last event was read

app == <<input_mode, url, message, song>>
term == <<raw_mode, alt_screen>>
proc == <<res, stdout, stderr, exit_code>>
ghost == <<last_event, last_io, last_resp, before, edit_start, edit_keys, html, last_url, entered>>
view == <<screen, draws>>
vars == <<pc, term, proc, app, file, ghost, view>>

NoEvent == [ev |-> "none", kind |-> "", code |-> "", ch |-> "", data |-> <<>>, mode |-> FALSE]
KeyEvent(kind, code, ch) ==
  [ev |-> "Key", kind |-> kind, code |-> code, ch |-> ch, data |-> <<>>, mode |-> input_mode]
PasteEvent(data) ==
  [ev |-> "Paste", kind |-> "", code |-> "", ch |-> "", data |-> data, mode |-> input_mode]
OtherEvent(e) ==
  [ev |-> e, kind |-> "", code |-> "", ch |-> "", data |-> <<>>, mode |-> input_mode]
NoResp == FetchErr("")
NoBefore == [url |-> <<>>, message |-> <<>>, song |-> None, file |-> None]
Snapshot == [url |-> url, message |-> message, song |-> song, file |-> file]

\* the loop read event e and is handling it: nothing is drawn meanwhile
Handled(e) ==
  /\ last_event' = e /\ before' = Snapshot
  /\ draws' = 0 /\ screen' = screen

\* App::new, before main has run
Init ==
  /\ pc = "enable_raw"
  /\ raw_mode = FALSE /\ alt_screen = FALSE
  /\ res = "none" /\ stdout = <<>> /\ stderr = <<>> /\ exit_code = -1
  /\ input_mode = FALSE /\ url = <<>> /\ message = <<>> /\ song = None
  /\ file = None
  /\ last_event = NoEvent /\ last_io = <<>> /\ last_resp = NoResp
  /\ before = NoBefore
  /\ edit_start = <<>> /\ edit_keys = <<>>
  /\ html = None /\ last_url = None /\ entered = <<>>
  /\ screen = None /\ draws = 0

\* main returns Err(e) through a `?`: the runtime prints it to standard
\* error and the process exits with status 1
ExitErr == pc' = "exited" /\ exit_code' = 1 /\ stderr' = Append(stderr, "Error")

\* ------------------------------------------------------------- main
\* enable_raw_mode()?
EnableRawMode ==
  /\ pc = "enable_raw"
  /\ \/ raw_mode' = TRUE /\ pc' = "enter_alt" /\ UNCHANGED <<exit_code, stderr>>
     \/ raw_mode' = FALSE /\ ExitErr
  /\ UNCHANGED <<alt_screen, res, stdout, app, file, ghost, view>>

\* execute!(stdout, EnterAlternateScreen, EnableBracketedPaste)?
EnterAlternateScreen ==
  /\ pc = "enter_alt"
  /\ \/ alt_screen' = TRUE /\ pc' = "new_terminal" /\ UNCHANGED <<exit_code, stderr>>
     \/ alt_screen' \in BOOLEAN /\ ExitErr
  /\ UNCHANGED <<raw_mode, res, stdout, app, file, ghost, view>>

\* Terminal::new(backend)?
NewTerminal ==
  /\ pc = "new_terminal"
  /\ \/ pc' = "draw" /\ UNCHANGED <<exit_code, stderr>>
     \/ ExitErr
  /\ UNCHANGED <<term, res, stdout, app, file, ghost, view>>

\* disable_raw_mode()?
DisableRawMode ==
  /\ pc = "disable_raw"
  /\ \/ raw_mode' = FALSE /\ pc' = "leave_alt" /\ UNCHANGED <<exit_code, stderr>>
     \/ raw_mode' = raw_mode /\ ExitErr
  /\ UNCHANGED <<alt_screen, res, stdout, app, file, ghost, view>>

\* execute!(terminal.backend_mut(), LeaveAlternateScreen, DisableBracketedPaste)?
LeaveAlternateScreen ==
  /\ pc = "leave_alt"
  /\ \/ alt_screen' = FALSE /\ pc' = "show_cursor" /\ UNCHANGED <<exit_code, stderr>>
     \/ alt_screen' \in BOOLEAN /\ ExitErr
  /\ UNCHANGED <<raw_mode, res, stdout, app, file, ghost, view>>

\* terminal.show_cursor()?
ShowCursor ==
  /\ pc = "show_cursor"
  /\ \/ pc' = "report" /\ UNCHANGED <<exit_code, stderr>>
     \/ ExitErr
  /\ UNCHANGED <<term, res, stdout, app, file, ghost, view>>

\* Result::is_err of what run_app returned
IsErr(r) == r \in {"Err(draw)", "Err(read)"}

\* what main returns once the terminal is restored
MainResult(r) == 0

\* if let Err(err) = res { println!("{:?}", err) }  Ok(())
Report ==
  /\ pc = "report"
  /\ stdout' = IF IsErr(res) THEN Append(stdout, res) ELSE stdout
  /\ exit_code' = MainResult(res)
  /\ pc' = "exited"
  /\ UNCHANGED <<term, res, stderr, app, file, ghost, view>>

\* append-character / remove-last-character, as the claim states them
ApplyKey(buf, k) ==
  IF k.code = "Char" THEN buf \o <<k.ch>>
  ELSE [i \in 1..(IF Len(buf) = 0 THEN 0 ELSE Len(buf) - 1) |-> buf[i]]

RECURSIVE Fold(_, _)
\* left-to-right fold of ApplyKey over keys
Fold(buf, keys) ==
  IF keys = <<>> THEN buf ELSE Fold(ApplyKey(buf, Head(keys)), Tail(keys))

\* ------------------------------------------------------------- run_app
\* the run of Char/Backspace presses goes on with key k, or starts afresh
\* with it once MaxKeys presses are remembered
EditKey(k) ==
  IF Len(edit_keys) < MaxKeys
    THEN edit_keys' = Append(edit_keys, k) /\ edit_start' = edit_start
    ELSE edit_keys' = <<k>> /\ edit_start' = url

\* any other event ends the run
EditEnds == edit_keys' = <<>> /\ edit_start' = url'

\* an event that performs no I/O
NoIo ==
  /\ last_io' = <<>> /\ last_resp' = NoResp /\ file' = file
  /\ html' = None /\ last_url' = None

\* run_app owns app (it is moved in): when run_app returns, app is dropped,
\* and with it the run of presses that was being remembered
Return(r) ==
  /\ pc' = "disable_raw" /\ res' = r
  /\ input_mode' = FALSE /\ url' = <<>> /\ message' = <<>> /\ song' = None
  /\ edit_start' = <<>> /\ edit_keys' = <<>> /\ entered' = <<>>

\* a ui whose body panel always shows the message
uiShowsMessage(mode, u, msg) ==
  [keybinds |-> <<"u: Enter URL", "q: Quit">>,
   panel |-> IF mode THEN "URL Input" ELSE "Message",
   body |-> msg,
   fg |-> IF mode THEN "Yellow" ELSE "Reset"]

\* ui: the keybinds panel and the body panel, which shows the buffer in
\* yellow in input mode and the message otherwise
ui(mode, u, msg) ==
  [keybinds |-> <<"u: Enter URL", "q: Quit">>,
   panel |-> IF mode THEN "URL Input" ELSE "Message",
   body |-> IF mode THEN u ELSE msg,
   fg |-> IF mode THEN "Yellow" ELSE "Reset"]

\* terminal.draw(|f| ui(f, &app))?: a new iteration begins, the record of
\* the previous one is forgotten
Draw ==
  /\ pc = "draw"
  /\ \/ /\ pc' = "read"
        /\ screen' = Some(ui(input_mode, url, message))
        /\ draws' = draws + 1
        /\ UNCHANGED <<res, app, edit_start, edit_keys, entered>>
     \/ Return("Err(draw)") /\ UNCHANGED view
  /\ last_event' = NoEvent /\ last_io' = <<>> /\ last_resp' = NoResp
  /\ before' = NoBefore /\ html' = None /\ last_url' = None
  /\ UNCHANGED <<term, stdout, stderr, exit_code, file>>

\* event::read()? fails
ReadFails ==
  /\ pc = "read"
  /\ Return("Err(read)")
  /\ UNCHANGED <<term, stdout, stderr, exit_code, file, view>>
  /\ UNCHANGED <<last_event, last_io, last_resp, before, html, last_url>>

\* an Enter arm that creates the file before it looks at the response
OutcomeCreatesFirst(resp, create_ok, write_ok) ==
  IF ~create_ok THEN "create_err"
  ELSE IF ~resp.ok THEN "fetch_err"
  ELSE IF ~is_success(resp.status) THEN "http_err"
  ELSE IF ~resp.readable THEN "read_err"
  ELSE IF ~write_ok THEN "write_err"
  ELSE "saved"

\* how far the nested matches of the Enter arm get
Outcome(resp, create_ok, write_ok) ==
  IF ~resp.ok THEN "fetch_err"
  ELSE IF ~is_success(resp.status) THEN "http_err"
  ELSE IF ~resp.readable THEN "read_err"
  ELSE IF ~create_ok THEN "create_err"
  ELSE IF ~write_ok THEN "write_err"
  ELSE "saved"

\* an Enter arm whose file-creation failure sets no message
MessageAfterSilentCreate(outcome, resp, sng) ==
  CASE outcome = "fetch_err" -> Str("Error fetching URL: ") \o Str(resp.err)
    [] outcome = "http_err" -> Str("HTTP error: ") \o StatusDisplay(resp.status)
    [] outcome = "read_err" ->
         Str("Error reading response: ") \o Str("error decoding response body")
    [] outcome = "create_err" -> <<>>
    [] outcome = "write_err" -> Str("Error writing to file")
    [] outcome = "saved" -> SavedMessage(sng)

\* app.message as the Enter arm sets it
MessageAfter(outcome, resp, sng) ==
  CASE outcome = "fetch_err" -> Str("Error fetching URL: ") \o Str(resp.err)
    [] outcome = "http_err" -> Str("HTTP error: ") \o StatusDisplay(resp.status)
    [] outcome = "read_err" ->
         Str("Error reading response: ") \o Str("error decoding response body")
    [] outcome = "create_err" -> Str("Error creating file")
    [] outcome = "write_err" -> Str("Error writing to file")
    [] outcome = "saved" -> SavedMessage(sng)

\* fetched.html after the Enter arm: File::create truncates, write_all
\* writes everything or fails part-way (n bytes written)
FileAfter(outcome, old, bytes, n) ==
  CASE outcome = "saved" -> Some(bytes)
    [] outcome = "write_err" -> Some(SubSeq(bytes, 1, n))
    [] OTHER -> old

\* the I/O steps the Enter arm performs
IoAfter(outcome) ==
  CASE outcome = "fetch_err" -> <<"get">>
    [] outcome = "http_err" -> <<"get">>
    [] outcome = "read_err" -> <<"get", "text">>
    [] outcome = "create_err" -> <<"get", "text", "create">>
    [] outcome = "write_err" -> <<"get", "text", "create", "write">>
    [] outcome = "saved" -> <<"get", "text", "create", "write", "parse_html">>

\* an Enter arm that leaves input mode only after a save
ModeAfterOnlyOnSave(outcome) == outcome # "saved"

\* app.input_mode when the Enter arm ends
ModeAfter(outcome) == FALSE

\* KeyCode::Enter in input mode: fetch, save, extract
KeyEnter ==
  /\ pc = "read" /\ input_mode
  /\ \E resp \in Responses(url), disk \in DiskOutcomes :
       LET text == DecodeLossy(resp.body)
           bytes == AsBytes(text)
           outcome == Outcome(resp, disk.create_ok, disk.write_ok)
           sng == parse_html(text)
           n == disk.written
       IN /\ outcome = "write_err" => n < Len(bytes)
          /\ message' = MessageAfter(outcome, resp, sng)
          /\ file' = FileAfter(outcome, file, bytes, n)
          /\ song' = IF outcome = "saved" THEN Some(sng) ELSE song
          /\ input_mode' = ModeAfter(outcome)
          /\ last_io' = IoAfter(outcome)
          /\ last_resp' = resp
          /\ html' = IF outcome = "saved" THEN Some(text) ELSE None
  /\ url' = url
  /\ last_url' = Some(url)
  /\ entered' = entered
  /\ Handled(KeyEvent("Press", "Enter", ""))
  /\ EditEnds
  /\ pc' = "draw"
  /\ UNCHANGED <<term, proc>>

\* a Char arm that takes 'q' for the quit command in input mode too
KeyCharQuits ==
  /\ pc = "read" /\ input_mode
  /\ Return("Ok")
  /\ Handled(KeyEvent("Press", "Char", "q"))
  /\ NoIo
  /\ UNCHANGED <<term, stdout, stderr, exit_code>>

\* KeyCode::Char(c) in input mode
KeyChar ==
  /\ pc = "read" /\ input_mode
  /\ \E c \in Chars :
       /\ Len(url) < MaxLen
       /\ url' = Push(url, c)
       /\ Handled(KeyEvent("Press", "Char", c))
       /\ EditKey([code |-> "Char", ch |-> c])
       /\ entered' = ApplyKey(entered, [code |-> "Char", ch |-> c])
  /\ NoIo
  /\ pc' = "draw"
  /\ UNCHANGED <<term, proc, input_mode, message, song>>

\* KeyCode::Backspace in input mode
KeyBackspace ==
  /\ pc = "read" /\ input_mode
  /\ url' = Pop(url)
  /\ Handled(KeyEvent("Press", "Backspace", ""))
  /\ EditKey([code |-> "Backspace", ch |-> ""])
  /\ entered' = ApplyKey(entered, [code |-> "Backspace", ch |-> ""])
  /\ NoIo
  /\ pc' = "draw"
  /\ UNCHANGED <<term, proc, input_mode, message, song>>

\* an Esc arm that also clears the buffer
KeyEscClears ==
  /\ pc = "read" /\ input_mode
  /\ input_mode' = FALSE
  /\ url' = <<>>
  /\ Handled(KeyEvent("Press", "Esc", ""))
  /\ pc' = "draw"
  /\ UNCHANGED <<term, proc, message, song>>
  /\ NoIo /\ EditEnds /\ entered' = entered

\* KeyCode::Esc in input mode
KeyEsc ==
  /\ pc = "read" /\ input_mode
  /\ input_mode' = FALSE
  /\ Handled(KeyEvent("Press", "Esc", ""))
  /\ pc' = "draw"
  /\ UNCHANGED <<term, proc, url, message, song>>
  /\ NoIo /\ EditEnds /\ entered' = entered

\* any other key code in input mode
KeyOtherInput ==
  /\ pc = "read" /\ input_mode
  /\ \E code \in OtherCodes : Handled(KeyEvent("Press", code, ""))
  /\ pc' = "draw"
  /\ UNCHANGED <<term, proc, app>>
  /\ NoIo /\ EditEnds /\ entered' = entered

\* KeyCode::Char('q') outside input mode: return Ok(())
KeyQuit ==
  /\ pc = "read" /\ ~input_mode
  /\ Return("Ok")
  /\ Handled(KeyEvent("Press", "Char", "q"))
  /\ NoIo
  /\ UNCHANGED <<term, stdout, stderr, exit_code>>

\* a clear that leaves the string as it is
ClearNothing(s) == s

\* String::clear
Clear(s) == <<>>

\* a 'u' arm that keeps the message
KeyEnterUrlKeepsMessage ==
  /\ pc = "read" /\ ~input_mode
  /\ input_mode' = TRUE
  /\ url' = Clear(url)
  /\ Handled(KeyEvent("Press", "Char", "u"))
  /\ pc' = "draw"
  /\ UNCHANGED <<term, proc, message, song>>
  /\ NoIo /\ EditEnds /\ entered' = <<>>

\* KeyCode::Char('u') outside input mode
KeyEnterUrl ==
  /\ pc = "read" /\ ~input_mode
  /\ input_mode' = TRUE
  /\ url' = Clear(url)
  /\ message' = Clear(message)
  /\ Handled(KeyEvent("Press", "Char", "u"))
  /\ pc' = "draw"
  /\ UNCHANGED <<term, proc, song>>
  /\ NoIo /\ EditEnds /\ entered' = <<>>

\* any other key code outside input mode
KeyOtherNav ==
  /\ pc = "read" /\ ~input_mode
  /\ \/ \E c \in NavChars \ {"q", "u"} : Handled(KeyEvent("Press", "Char", c))
     \/ \E code \in OtherCodes \cup {"Enter", "Backspace", "Esc"} :
          Handled(KeyEvent("Press", code, ""))
  /\ pc' = "draw"
  /\ UNCHANGED <<term, proc, app>>
  /\ NoIo /\ EditEnds /\ entered' = entered

\* a key arm that does not look at the kind: the release or repeat of Esc
\* leaves input mode
KeyNotPressActs ==
  /\ pc = "read"
  /\ \E kind \in {"Release", "Repeat"} : Handled(KeyEvent(kind, "Esc", ""))
  /\ input_mode' = FALSE
  /\ pc' = "draw"
  /\ UNCHANGED <<term, proc, url, message, song>>
  /\ NoIo /\ EditEnds /\ entered' = entered

\* a key event whose kind is not Press
KeyNotPress ==
  /\ pc = "read"
  /\ \E kind \in {"Release", "Repeat"} :
       \/ \E c \in Chars : Handled(KeyEvent(kind, "Char", c))
       \/ \E code \in {"Enter", "Backspace", "Esc"} :
            Handled(KeyEvent(kind, code, ""))
  /\ pc' = "draw"
  /\ UNCHANGED <<term, proc, app>>
  /\ NoIo /\ EditEnds /\ entered' = entered

\* a Paste arm that does not look at the mode
PasteAlways ==
  /\ pc = "read"
  /\ \E data \in Pastes :
       /\ Len(url) < MaxLen
       /\ url' = PushStr(url, data)
       /\ entered' = IF input_mode THEN entered \o data ELSE entered
       /\ Handled(PasteEvent(data))
  /\ pc' = "draw"
  /\ UNCHANGED <<term, proc, input_mode, message, song>>
  /\ NoIo /\ EditEnds

\* Event::Paste(data)
Paste ==
  /\ pc = "read"
  /\ \E data \in Pastes :
       /\ input_mode => Len(url) < MaxLen
       /\ url' = IF input_mode THEN PushStr(url, data) ELSE url
       /\ entered' = IF input_mode THEN entered \o data ELSE entered
       /\ Handled(PasteEvent(data))
  /\ pc' = "draw"
  /\ UNCHANGED <<term, proc, input_mode, message, song>>
  /\ NoIo /\ EditEnds

\* a last arm that reads the next event without drawing
OtherSkipsDraw ==
  /\ pc = "read"
  /\ \E e \in OtherEvents : Handled(OtherEvent(e))
  /\ pc' = "read"
  /\ UNCHANGED <<term, proc, app>>
  /\ NoIo /\ EditEnds /\ entered' = entered

\* every other event
Other ==
  /\ pc = "read"
  /\ \E e \in OtherEvents : Handled(OtherEvent(e))
  /\ pc' = "draw"
  /\ UNCHANGED <<term, proc, app>>
  /\ NoIo /\ EditEnds /\ entered' = entered

Next ==
  \/ EnableRawMode \/ EnterAlternateScreen \/ NewTerminal
  \/ Draw \/ ReadFails
  \/ KeyEnter \/ KeyChar \/ KeyBackspace \/ KeyEsc \/ KeyOtherInput
  \/ KeyQuit \/ KeyEnterUrl \/ KeyOtherNav \/ KeyNotPress \/ Paste \/ Other
  \/ DisableRawMode \/ LeaveAlternateScreen \/ ShowCursor \/ Report

Spec == Init /\ [][Next]_vars

\* ------------------------------------------------------------- properties
\* the handler of the event in last_event has just finished
HandledPress(code) ==
  last_event.ev = "Key" /\ last_event.kind = "Press" /\ last_event.code = code

\* an Enter press was handled in input mode: a commit
Committed == HandledPress("Enter") /\ last_event.mode

\* the commit went through fetch, read, create, write and extraction
Saved == Committed /\ last_io = <<"get", "text", "create", "write", "parse_html">>

\* C1: whenever an Enter press was handled in input mode, whatever the fetch,
\* the body read, the file creation and the file write did, the mode is
\* Navigation when the handler has finished.
C1_CommitLeavesInputMode == Committed => ~input_mode

\* a commit whose file write failed has returned to Navigation
C1_Witness ==
  Committed /\ last_io = <<"get", "text", "create", "write">> /\ ~input_mode

\* C2: once the process has exited, raw mode is disabled and the alternate
\* screen has been left, whichever way main returned.
C2_TerminalReleased == pc = "exited" => ~raw_mode /\ ~alt_screen

\* C3: when main ran to its end (no setup or teardown step failed), the exit
\* status is 0 if run_app returned Ok (quit), and is non-zero with a
\* diagnostic on standard output if run_app returned a draw or read error.
C3_ExitStatus ==
  pc = "exited" /\ stderr = <<>> =>
    /\ res = "Ok" => exit_code = 0
    /\ IsErr(res) => exit_code # 0 /\ stdout # <<>>

\* C4: when a press of 'u' was handled outside input mode, the mode is input
\* mode and the buffer and the message are empty, whatever they held before.
C4_EnterUrlClears ==
  HandledPress("Char") /\ last_event.ch = "u" /\ ~last_event.mode =>
    input_mode /\ url = <<>> /\ message = <<>>

\* 'u' was pressed with text left in the buffer and a message on display
C4_Witness ==
  /\ HandledPress("Char") /\ last_event.ch = "u" /\ ~last_event.mode
  /\ before.url # <<>> /\ before.message # <<>>
  /\ input_mode /\ url = <<>>

\* C5: in input mode the buffer equals the left-to-right fold of append /
\* remove-last over the buffer at the start of the run of Char and Backspace
\* presses; a Backspace on the empty buffer leaves buffer, mode and message as
\* they were and the loop goes on.
C5_BufferIsFold ==
  /\ input_mode => url = Fold(edit_start, edit_keys)
  /\ HandledPress("Backspace") /\ last_event.mode /\ before.url = <<>> =>
       /\ url = <<>> /\ input_mode /\ message = before.message
       /\ pc = "draw" /\ res = "none"

\* a run of three presses: Backspace on the empty buffer, then a character,
\* then another
C5_Witness ==
  /\ input_mode /\ edit_start = <<>> /\ Len(edit_keys) = 3
  /\ edit_keys[1].code = "Backspace" /\ edit_keys[2].code = "Char"
  /\ edit_keys[3].code = "Char" /\ Len(url) = 2

\* C6: when an Escape press was handled in input mode, the mode is Navigation,
\* buffer, message, song and file are as they were, and no fetch, file create
\* or file write was performed.
C6_EscFrame ==
  HandledPress("Esc") /\ last_event.mode =>
    /\ ~input_mode
    /\ url = before.url /\ message = before.message
    /\ song = before.song /\ file = before.file
    /\ last_io = <<>>

\* Escape was pressed with text in the buffer
C6_Witness ==
  HandledPress("Esc") /\ last_event.mode /\ ~input_mode /\ url # <<>>

\* the response of the commit carried a status outside 200..299
NonSuccess == Committed /\ last_resp.ok /\ last_resp.status \notin 200..299

\* C7: after a commit whose response has a non-success status, the message
\* contains the status code, fetched.html is as it was, nothing beyond the
\* fetch was performed (no body read, create, write or extraction), the song
\* is as it was and the mode is Navigation.
C7_HttpError ==
  NonSuccess =>
    /\ Contains(message, Decimal(last_resp.status))
    /\ file = before.file /\ song = before.song
    /\ last_io = <<"get">>
    /\ ~input_mode

\* a 404 arrived while fetched.html held an earlier page
C7_Witness ==
  NonSuccess /\ last_resp.status = 404 /\ before.file # None /\ file = before.file

\* C8: after a commit that ran into a transport failure, a non-success
\* status, a body-read failure or a file create/write failure, run_app has
\* not returned and stands before the next draw, and the message is the
\* non-empty description of that failure.
C8_RecoverableFailure ==
  Committed /\ ~Saved =>
    /\ pc = "draw" /\ res = "none" /\ exit_code = -1
    /\ message # <<>>
    /\ ~last_resp.ok => Head(message) = "Error fetching URL: " /\ Len(message) = 2
    /\ NonSuccess => Head(message) = "HTTP error: "
    /\ last_io = <<"get", "text">> => Head(message) = "Error reading response: "
    /\ last_io = <<"get", "text", "create">> => message = <<"Error creating file">>
    /\ last_io = <<"get", "text", "create", "write">> =>
         message = <<"Error writing to file">>

\* a file creation failed after an earlier commit had left its message
C8_Witness ==
  /\ Committed /\ last_io = <<"get", "text", "create">>
  /\ message = <<"Error creating file">> /\ song # None /\ pc = "draw"

\* the document of the last response
LastDoc == ParseDocument(DecodeLossy(last_resp.body))

\* number of elements of the document matching span.yvpjZ
ChordCount ==
  Cardinality({i \in DOMAIN LastDoc :
     /\ LastDoc[i].kind = "start"
     /\ LastDoc[i].tag = "span" /\ LastDoc[i].class = "yvpjZ"})

\* the document has a title element
HasTitle == \E i \in DOMAIN LastDoc : LastDoc[i].kind = "start" /\ LastDoc[i].tag = "title"

\* C9: after a commit that saved the body, the message is the save
\* confirmation, the number of elements matching the chord selector, the
\* extracted title or "Unknown" when there is no title element, and the
\* extracted artist or "Unknown" when it is absent.
C9_SavedMessage ==
  Saved =>
    /\ song # None
    /\ message =
         <<"Saved to fetched.html. Parsed ">> \o Decimal(ChordCount)
           \o <<" chords for '">>
           \o (IF HasTitle THEN song[1].title[1] ELSE <<"Unknown">>)
           \o <<"' by ">>
           \o (IF song[1].artist = None THEN <<"Unknown">> ELSE song[1].artist[1])

\* a page with two chords, an artist and no title was saved
C9_Witness ==
  /\ Saved /\ song # None /\ Len(song[1].chords) = 2
  /\ song[1].title = None /\ song[1].artist # None
  /\ Contains(message, <<"2", " chords for '", "Unknown">>)

\* C10: after a commit that saved the body, fetched.html holds exactly the
\* bytes of the body the response carried.
C10_FileIsBody == Saved => file = Some(last_resp.body)

\* a key event of a kind other than Press was handled
NotPressHandled == last_event.ev = "Key" /\ last_event.kind # "Press"

\* C11: when a key event whose kind is not Press was handled, in either mode
\* and whatever its key code, mode, buffer, message, song and file are as
\* they were, no fetch or file I/O was performed and run_app has not returned.
C11_NotPressIgnored ==
  NotPressHandled =>
    /\ input_mode = last_event.mode
    /\ url = before.url /\ message = before.message
    /\ song = before.song /\ file = before.file
    /\ last_io = <<>> /\ last_url = None
    /\ pc = "draw" /\ res = "none"

\* the release of Enter was read in input mode with text in the buffer
C11_Witness ==
  /\ NotPressHandled /\ last_event.code = "Enter" /\ last_event.mode
  /\ input_mode /\ url # <<>> /\ pc = "draw"

\* a press of 'q' was handled outside input mode
QuitPress == HandledPress("Char") /\ last_event.ch = "q" /\ ~last_event.mode

\* C12: run_app has returned Ok only if a press of 'q' was handled outside
\* input mode; a press of 'q' handled in input mode was appended to the
\* buffer and the loop goes on; no other handled event ends the loop.
C12_QuitOnlyFromNavigation ==
  /\ res = "Ok" => QuitPress
  /\ HandledPress("Char") /\ last_event.ch = "q" /\ last_event.mode =>
       /\ url = before.url \o <<"q">> /\ input_mode
       /\ res = "none" /\ pc = "draw"
  /\ last_event.ev # "none" /\ ~QuitPress => res = "none" /\ pc = "draw"

\* 'q' was typed into a buffer that held a character
C12_Witness ==
  /\ HandledPress("Char") /\ last_event.ch = "q" /\ last_event.mode
  /\ Len(url) = 2 /\ url[2] = "q" /\ res = "none"

\* ------------------------------------------------------------- parse_html alone
\* the markup and text units documents are drawn from
DocUnits ==
  {"<title>", "</title>", "<span class=yvpjZ>", "</span>", "<b>", "</b>",
   "<meta name=og:site_name content=Band>", "<meta name=og:site_name>", "G", "&"}

RECURSIVE WellNested(_, _, _)
\* from unit i on, with the elements in open still open: every end tag closes
\* the innermost open element, a title holds text only, nothing stays open
WellNested(d, i, open) ==
  IF i > Len(d) THEN open = <<>>
  ELSE LET n == Node(d[i])
           in_title == open # <<>> /\ open[Len(open)] = "title"
       IN IF n.kind = "text" THEN WellNested(d, i + 1, open)
          ELSE IF n.kind = "start"
            THEN /\ ~in_title
                 /\ WellNested(d, i + 1, IF IsVoid(n) THEN open ELSE Append(open, n.tag))
          ELSE /\ open # <<>> /\ open[Len(open)] = n.tag
               /\ WellNested(d, i + 1, SubSeq(open, 1, Len(open) - 1))

\* the well-formed documents of at most n units
DocsUpTo(n) ==
  {d \in UNION {[1..k -> DocUnits] : k \in 0..n} : WellNested(d, 1, <<>>)}

\* a call of parse_html is about to be made on some document
ParseInit ==
  /\ pc = "parse_html"
  /\ html \in {Some(d) : d \in DocsUpTo(MaxDoc)}
  /\ raw_mode = FALSE /\ alt_screen = FALSE
  /\ res = "none" /\ stdout = <<>> /\ stderr = <<>> /\ exit_code = -1
  /\ input_mode = FALSE /\ url = <<>> /\ message = <<>> /\ song = None
  /\ file = None
  /\ last_event = NoEvent /\ last_io = <<>> /\ last_resp = NoResp
  /\ before = NoBefore
  /\ edit_start = <<>> /\ edit_keys = <<>>
  /\ last_url = None /\ entered = <<>>
  /\ screen = None /\ draws = 0

\* let song = parse_html(&text)
Parse ==
  /\ pc = "parse_html"
  /\ song' = Some(parse_html(html[1]))
  /\ pc' = "parsed"
  /\ UNCHANGED <<term, proc, input_mode, url, message, file, ghost, view>>

ParseNext == Parse

SpecParse == ParseInit /\ [][ParseNext]_vars

\* the document parse_html was given
Doc == ParseDocument(html[1])

\* the elements of Doc that are tag elements with the given class and name
\* attribute (an empty string: no such attribute asked for)
Elems(tag, class, name) ==
  {i \in DOMAIN Doc :
     /\ Doc[i].kind = "start" /\ Doc[i].tag = tag
     /\ class # "" => Doc[i].class = class
     /\ name # "" => Doc[i].name = name}

\* the k-th index of S in document order
Nth(S, k) == CHOOSE i \in S : Cardinality({j \in S : j < i}) = k - 1

RECURSIVE TextsFrom(_, _, _)
\* the text nodes of doc from j up to (not including) e, in order
TextsFrom(doc, j, e) ==
  IF j >= e THEN <<>>
  ELSE IF doc[j].kind = "text" THEN <<doc[j].text>> \o TextsFrom(doc, j + 1, e)
  ELSE TextsFrom(doc, j + 1, e)

\* the inner text of the element at i: the text of its descendants
InnerText(doc, i) == TextsFrom(doc, i + 1, EndOf(doc, i + 1, 0))

\* C13: the chord sequence parse_html returns has as many entries as the
\* document has elements matching span.yvpjZ, and its k-th entry is the inner
\* text of the k-th matching element in document order.
C13_ChordsAreInnerText ==
  html # None /\ song # None =>
    LET chords == song[1].chords
        S == Elems("span", "yvpjZ", "")
    IN /\ Len(chords) = Cardinality(S)
       /\ \A k \in 1..Len(chords) : chords[k].name = InnerText(Doc, Nth(S, k))

\* C14: parse_html returns a result for every document; the title is absent
\* exactly when no title element matches and otherwise is the inner text of
\* the first one; the artist is absent when no meta[name='og:site_name']
\* matches or the first match has no content attribute, and otherwise is that
\* attribute's value.
C14_TitleArtist ==
  /\ pc = "parsed" => song # None
  /\ html # None /\ song # None =>
       LET T == Elems("title", "", "")
           A == Elems("meta", "", "og:site_name")
       IN /\ song[1].title = None <=> T = {}
          /\ T # {} => song[1].title = Some(InnerText(Doc, Nth(T, 1)))
          /\ song[1].artist = IF A = {} THEN None ELSE Doc[Nth(A, 1)].content

\* C15: the URL given to the GET of a commit is the net text entered since the
\* last 'u': the characters, Backspaces and pastes handled in that edit
\* session applied left to right, each paste appended whole at the end, and
\* nothing from earlier sessions or from pastes received in Navigation.
C15_UrlIsEnteredText == Committed => last_url = Some(entered)

\* a second session, after a save, commits a typed character followed by a paste
C15_Witness ==
  /\ Committed /\ before.song # None
  /\ last_url = Some(<<"q">> \o PasteUrl)

\* the steps of a commit, in the order of the code
Steps == <<"get", "text", "create", "write", "parse_html">>

\* step is among the steps the commit performed
Ran(step) == \E i \in DOMAIN last_io : last_io[i] = step

\* the response of the commit came back with a status in 200..299
GotSuccess == last_resp.ok /\ last_resp.status >= 200 /\ last_resp.status <= 299

\* C16: the steps of a commit are an initial part of get, text, create, write,
\* parse_html; the body is read only from a response with a success status,
\* the file is created or changed only after a success status and a readable
\* body, and parse_html runs, and the song is replaced, only after the whole
\* body text was written.
C16_StepOrder ==
  Committed =>
    /\ Len(last_io) >= 1 /\ Len(last_io) <= Len(Steps)
    /\ last_io = SubSeq(Steps, 1, Len(last_io))
    /\ Ran("text") => GotSuccess
    /\ Ran("create") => GotSuccess /\ last_resp.readable
    /\ file # before.file => Ran("write")
    /\ Ran("parse_html") =>
         /\ html # None /\ file = Some(AsBytes(html[1]))
         /\ song = Some(parse_html(html[1]))
    /\ ~Ran("parse_html") => song = before.song

\* a commit that went through every step and replaced the song
C16_Witness ==
  /\ Committed /\ last_io = Steps /\ GotSuccess
  /\ song # before.song /\ file # before.file

\* an event other than a press of 'q' or 'u' was handled in Navigation
NavOther ==
  /\ last_event.ev # "none" /\ ~last_event.mode
  /\ ~(HandledPress("Char") /\ last_event.ch \in {"q", "u"})

\* C17: in Navigation every event other than a press of 'q' or 'u' leaves the
\* mode, the buffer and the message as they were, fetches nothing and leaves
\* the file alone, and the loop goes on.
C17_NavigationNoOp ==
  NavOther =>
    /\ ~input_mode /\ url = before.url /\ message = before.message
    /\ song = before.song /\ file = before.file
    /\ last_io = <<>> /\ last_url = None
    /\ pc = "draw" /\ res = "none"

\* a paste arrives in Navigation while a buffer and a message are retained
C17_Witness ==
  /\ NavOther /\ last_event.ev = "Paste" /\ last_event.data = PasteUrl
  /\ url # <<>> /\ message # <<>> /\ ~input_mode

\* C18: an event is read only right after exactly one draw of the Session as
\* it is; handling an event draws nothing; and when a commit has been handled
\* the whole sequence has resolved, the mode is Navigation, the screen is
\* still the one drawn before the Enter, and the next step is a draw.
C18_DrawReadHandle ==
  /\ pc = "read" =>
       /\ draws = 1 /\ screen = Some(ui(input_mode, url, message))
       /\ last_event = NoEvent
  /\ last_event.ev # "none" => draws = 0 /\ (res = "none" => pc = "draw")
  /\ Committed =>
       /\ ~input_mode /\ pc = "draw" /\ draws = 0
       /\ last_io # <<>>
       /\ screen = Some(ui(TRUE, before.url, before.message))

\* a commit saved a page while the screen still shows the buffer being edited
C18_Witness ==
  /\ Saved /\ draws = 0 /\ pc = "draw" /\ message # <<>>
  /\ screen # None /\ screen[1].body = url /\ screen[1].panel = "URL Input"

\* C19: a draw changes neither mode, buffer, message nor song and does no I/O;
\* what it shows has the two command hints, and in the body panel the buffer
\* when the mode is input mode and the message otherwise.
C19_RenderingPure ==
  /\ [][pc = "draw" /\ pc' = "read" =>
          /\ UNCHANGED <<app, file>>
          /\ last_io' = <<>> /\ last_url' = None]_vars
  /\ [](pc = "read" =>
          /\ screen # None
          /\ screen[1].keybinds = <<"u: Enter URL", "q: Quit">>
          /\ input_mode => screen[1].body = url
          /\ ~input_mode => screen[1].body = message)

\* both renderings happen: a non-empty buffer is shown while a message of an
\* earlier commit is retained by the song it saved
C19_Witness ==
  /\ pc = "read" /\ input_mode /\ url # <<>> /\ song # None
  /\ screen # None /\ screen[1].body = url /\ screen[1].fg = "Yellow"

\* C20: whenever the mode is input mode the message is empty.
C20_InputModeNoMessage == input_mode => message = <<>>

\* keys are being typed in a session entered after a commit had set a message
C20_Witness ==
  /\ input_mode /\ edit_keys # <<>> /\ song # None /\ message = <<>>
  /\ HandledPress("Char") /\ last_event.mode

====
